---- MODULE Spec2Model ----
(***************************************************************************)
(* Model of main.py: the /api/summarize and /api/generate-mcqs handlers,   *)
(* the transcript resolver they share, and the line-oriented MCQ parser.   *)
(*                                                                         *)
(* Python strings are sequences of one-character strings.  The text of a   *)
(* generation response is consumed line by line: the model draws each      *)
(* line of response.text.split("\n") when the loop reaches it.             *)
(***************************************************************************)
EXTENDS Integers, Sequences, FiniteSets, TLC

VARIABLES
    task,         \* which handler runs: "summarize", "quiz" ("none": extract_video_id alone)
    url,          \* video.url
    pc,           \* position of the handler
    video_id,     \* extract_transcript_text: video_id
    transcript,   \* the handler's transcript (joined text), None before the fetch
    response,     \* generate_mcqs: the kind of object generate_content returned
    line,         \* generate_mcqs: loop variable `line` (after strip)
    nlines,       \* number of lines of response.text.split("\n") consumed so far
    mcqs,         \* generate_mcqs: mcqs
    current_mcq,  \* generate_mcqs: current_mcq
    result,       \* the HTTP response of the request, None while it runs
    fetchCalls,   \* calls of YouTubeTranscriptApi.get_transcript made by the request
    genCalls,     \* calls of model.generate_content made by the request
    qSeen         \* history: the Q-prefixed lines consumed so far, in order

vars == <<task, url, pc, video_id, transcript, response, line, nlines, mcqs,
          current_mcq, result, fetchCalls, genCalls, qSeen>>

----------------------------------------------------------------------------
(* Bounds of the model *)

MaxLines == 6     \* lines of response text the free-text parse consumes
MaxSegs == 4      \* segments a URL given to extract_video_id alone is built from
MaxEntries == 1   \* caption entries a fetched transcript holds

(* Program constants *)

IdLen == 11        \* {11} in the video-id pattern
MinQuestions == 5  \* len(mcqs) < 5

----------------------------------------------------------------------------
(* Python string helpers *)

Whitespace == {" ", "\t"}

RECURSIVE LStrip(_)
LStrip(s) == IF s # <<>> /\ Head(s) \in Whitespace THEN LStrip(Tail(s)) ELSE s

RECURSIVE RStrip(_)
RStrip(s) ==
    IF s # <<>> /\ s[Len(s)] \in Whitespace THEN RStrip(SubSeq(s, 1, Len(s) - 1)) ELSE s

\* str.strip()
Strip(s) == RStrip(LStrip(s))

\* str.startswith(p)
StartsWith(s, p) == Len(s) >= Len(p) /\ SubSeq(s, 1, Len(p)) = p

\* str.split(sep) for a one-character separator: the list of parts
RECURSIVE Split(_, _)
Split(s, sep) ==
    IF \A i \in 1..Len(s) : s[i] # sep
    THEN <<s>>
    ELSE LET i == CHOOSE k \in 1..Len(s) : s[k] = sep /\ \A j \in 1..(k - 1) : s[j] # sep
         IN <<SubSeq(s, 1, i - 1)>> \o Split(SubSeq(s, i + 1, Len(s)), sep)

\* " ".join(parts)
RECURSIVE Join(_)
Join(parts) ==
    IF parts = <<>> THEN <<>>
    ELSE IF Len(parts) = 1 THEN parts[1]
    ELSE parts[1] \o <<" ">> \o Join(Tail(parts))

----------------------------------------------------------------------------
(* extract_video_id: re.search(r"(?:v=|\/)([0-9A-Za-z_-]{11}).*", youtube_url) *)

Digits == {"0", "1", "2", "3", "4", "5", "6", "7", "8", "9"}
Upper == {"A", "B", "C", "D", "E", "F", "G", "H", "I", "J", "K", "L", "M",
          "N", "O", "P", "Q", "R", "S", "T", "U", "V", "W", "X", "Y", "Z"}
Lower == {"a", "b", "c", "d", "e", "f", "g", "h", "i", "j", "k", "l", "m",
          "n", "o", "p", "q", "r", "s", "t", "u", "v", "w", "x", "y", "z"}

\* the character class [0-9A-Za-z_-]
IdChars == Digits \cup Upper \cup Lower \cup {"_", "-"}

\* length of the text (?:v=|\/) matches at position i, 0 if it does not match there
SepLen(u, i) ==
    IF i + 1 <= Len(u) /\ u[i] = "v" /\ u[i + 1] = "=" THEN 2
    ELSE IF i <= Len(u) /\ u[i] = "/" THEN 1
    ELSE 0

\* the pattern matches with its first character at position i
MatchAt(u, i) ==
    LET n == SepLen(u, i) IN
    /\ n > 0
    /\ i + n + IdLen - 1 <= Len(u)
    /\ \A j \in (i + n)..(i + n + IdLen - 1) : u[j] \in IdChars

\* `if match:`
HasMatch(u) == \E i \in 1..Len(u) : MatchAt(u, i)

\* match.group(1) of the leftmost match
extract_video_id(u) ==
    LET i == CHOOSE k \in 1..Len(u) : MatchAt(u, k) /\ \A j \in 1..(k - 1) : ~MatchAt(u, j)
        n == SepLen(u, i)
    IN SubSeq(u, i + n, i + n + IdLen - 1)

----------------------------------------------------------------------------
(* HTTP responses.  status 0: the request is still running. *)

NoResult == [status |-> 0, detail |-> "", summary |-> <<>>, mcqs |-> <<>>]

\* raise HTTPException(status_code, detail)
HTTPException(code, what) == [status |-> code, detail |-> what, summary |-> <<>>, mcqs |-> <<>>]

InvalidURL == HTTPException(400, "Invalid YouTube URL. Please provide a valid video link.")
TranscriptFailed == HTTPException(400, "Transcript extraction failed.")
GeminiAPIError == HTTPException(500, "Gemini API Error")
UnexpectedError == HTTPException(500, "Unexpected error")
NotEnoughMCQs == HTTPException(500, "Not enough MCQs generated.")

\* return {"summary": summary, "questions": [...]}
SummaryResponse(text) == [status |-> 200, detail |-> "summary", summary |-> text, mcqs |-> <<>>]

\* return {"mcqs": mcqs}
McqResponse(list) == [status |-> 200, detail |-> "mcqs", summary |-> <<>>, mcqs |-> list]

----------------------------------------------------------------------------
(* Inputs of a request *)

\* a watch URL with an 11-character id, and a string without one
ReqUrls == { <<"/", "w", "?", "v", "=", "d", "Q", "w", "4", "w", "9", "W", "g", "X", "c", "Q">>,
             <<"/", "w", "?", "v", "=", "d", "Q", "w">> }

\* texts of caption entries
EntryTexts == { <<"a">>, <<>> }

RECURSIVE SeqsUpTo(_, _)
SeqsUpTo(S, n) ==
    IF n = 0 THEN {<<>>}
    ELSE LET prev == SeqsUpTo(S, n - 1)
         IN prev \cup {p \o <<x>> : p \in prev, x \in S}

\* what YouTubeTranscriptApi.get_transcript does: raise, or return a list of entries
FetchOutcomes ==
    {[raised |-> TRUE, entries |-> <<>>]}
    \cup {[raised |-> FALSE, entries |-> e] : e \in SeqsUpTo(EntryTexts, MaxEntries)}

\* what model.generate_content does: raise, or return an object that has a .text
\* ("text"), whose .text raises because it holds no part ("textraises"), a dict with
\* or without candidates ("dict", "dictbare"), or anything else ("other")
SummaryText == <<"s", "u", "m">>
GenOutcomes ==
    {[kind |-> k, text |-> <<>>] : k \in {"raises", "text", "textraises", "dictbare", "other"}}
    \cup {[kind |-> k, text |-> SummaryText] : k \in {"text", "dict"}}

----------------------------------------------------------------------------
(* The request: state after the handler is entered *)

Init ==
    /\ task \in {"summarize", "quiz"}
    /\ url \in ReqUrls
    /\ pc = "start"
    /\ video_id = <<>>
    /\ transcript = <<>>
    /\ response = "none"
    /\ line = <<>>
    /\ nlines = 0
    /\ mcqs = <<>>
    /\ current_mcq = <<>>
    /\ result = NoResult
    /\ fetchCalls = 0
    /\ genCalls = 0
    /\ qSeen = <<>>

parseVars == <<line, nlines, mcqs, current_mcq, qSeen>>

\* extract_transcript_text, line 57, no match: extract_video_id raises, the handler
\* re-raises the HTTPException
ExtractVideoIdFails ==
    /\ pc = "start"
    /\ ~HasMatch(url)
    /\ result' = InvalidURL
    /\ pc' = "done"
    /\ UNCHANGED <<task, url, video_id, transcript, response, fetchCalls, genCalls>>
    /\ UNCHANGED parseVars

\* extract_transcript_text, line 57, match
ExtractVideoId ==
    /\ pc = "start"
    /\ HasMatch(url)
    /\ video_id' = extract_video_id(url)
    /\ pc' = "fetch"
    /\ UNCHANGED <<task, url, transcript, response, result, fetchCalls, genCalls>>
    /\ UNCHANGED parseVars

\* fetch_transcript and the rest of extract_transcript_text, then the handler's own
\* `if not transcript`
FetchTranscript ==
    /\ pc = "fetch"
    /\ \E o \in FetchOutcomes :
         LET fetched == IF o.raised THEN <<>> ELSE o.entries  \* None and [] are both falsy
             text == Join(fetched)
         IN /\ fetchCalls' = fetchCalls + 1
            /\ IF fetched = <<>> \/ text = <<>>
               THEN /\ result' = TranscriptFailed
                    /\ pc' = "done"
                    /\ UNCHANGED transcript
               ELSE /\ transcript' = text
                    /\ pc' = "generate"
                    /\ UNCHANGED result
    /\ UNCHANGED <<task, url, video_id, response, genCalls>>
    /\ UNCHANGED parseVars

\* the local `response`: the kind of object returned, "emptytext" a .text that is ""
ResponseOf(o) == IF o.kind = "text" /\ o.text = <<>> THEN "emptytext" ELSE o.kind

\* generate_summary's value for a response object, lines 81-86
SummaryOf(o) ==
    IF o.kind = "text" THEN o.text
    ELSE IF o.kind = "dict" THEN o.text
    ELSE IF o.kind = "dictbare" THEN <<"Summary generation failed.">>
    ELSE <<"Unexpected response format from Gemini API.">>

\* summarize_video from line 100: generate_summary and the return
GenerateSummary ==
    /\ pc = "generate"
    /\ task = "summarize"
    /\ \E o \in GenOutcomes :
         /\ genCalls' = genCalls + 1
         /\ response' = ResponseOf(o)
         /\ result' = IF o.kind \in {"raises", "textraises"}
                      THEN GeminiAPIError
                      ELSE SummaryResponse(SummaryOf(o))
    /\ pc' = "done"
    /\ UNCHANGED <<task, url, video_id, transcript, fetchCalls>>
    /\ UNCHANGED parseVars

\* generate_mcqs, lines 149-155: the call, and response.text read for the split
GenerateMcqs ==
    /\ pc = "generate"
    /\ task = "quiz"
    /\ \E o \in GenOutcomes :
         /\ genCalls' = genCalls + 1
         /\ response' = ResponseOf(o)
         /\ IF o.kind = "text"
            THEN /\ pc' = "parse"
                 /\ UNCHANGED result
            ELSE /\ result' = UnexpectedError   \* any exception but HTTPException, line 177
                 /\ pc' = "done"
    /\ UNCHANGED <<task, url, video_id, transcript, fetchCalls>>
    /\ UNCHANGED parseVars

----------------------------------------------------------------------------
(* generate_mcqs, lines 153-174: the parser *)

QMarker == <<"Q">>
OptionMarkers == { <<"A", ")">>, <<"B", ")">>, <<"C", ")">>, <<"D", ")">> }
CorrectAnswerMarker ==
    <<"C", "o", "r", "r", "e", "c", "t", " ", "A", "n", "s", "w", "e", "r", ":">>
ExplanationMarker ==
    <<"E", "x", "p", "l", "a", "n", "a", "t", "i", "o", "n", ":">>

\* raw lines the generation response may hold
Lines ==
    { <<"Q", "1">>,
      <<" ", "Q", "2", "\t">>,
      <<" ", "A", ")", "x">>,
      CorrectAnswerMarker \o <<" ", "A", ":", "b">>,
      ExplanationMarker \o <<" ", "x", ":", "y", " ">>,
      <<>>,
      <<"E", ")">> }

\* which branch of the if/elif chain of lines 157-166 a stripped line takes
IsQLine(l) == StartsWith(l, QMarker)
IsOptionLine(l) == ~IsQLine(l) /\ \E m \in OptionMarkers : StartsWith(l, m)
IsCorrectAnswerLine(l) ==
    ~IsQLine(l) /\ ~IsOptionLine(l) /\ StartsWith(l, CorrectAnswerMarker)
IsExplanationLine(l) ==
    /\ ~IsQLine(l) /\ ~IsOptionLine(l) /\ ~IsCorrectAnswerLine(l)
    /\ StartsWith(l, ExplanationMarker)
IsOtherLine(l) ==
    ~IsQLine(l) /\ ~IsOptionLine(l) /\ ~IsCorrectAnswerLine(l) /\ ~IsExplanationLine(l)

\* line.split(":")[1].strip()
FieldText(l) == Strip(Split(l, ":")[2])

\* NewMcq with the "Qn" label cut off the question
NewMcqUnlabelled(l) ==
    [question |-> SubSeq(l, 3, Len(l)), options |-> <<>>, correct_answer |-> <<>>,
     explanation |-> <<>>]

\* {"question": line, "options": [], "correct_answer": "", "explanation": ""}
NewMcq(l) == [question |-> l, options |-> <<>>, correct_answer |-> <<>>, explanation |-> <<>>]

\* `if current_mcq: mcqs.append(current_mcq)`; current_mcq is None (<<>>) or a dict
Emitted == IF current_mcq # <<>> THEN Append(mcqs, current_mcq[1]) ELSE mcqs

\* the loop takes the next line of response.text.split("\n"), lines 155-156
NextLine(raw) ==
    /\ pc = "parse"
    /\ response = "emptytext" => nlines = 0 /\ raw = <<>>   \* "".split("\n") is [""]
    /\ line' = Strip(raw)
    /\ nlines' = nlines + 1
    /\ UNCHANGED <<task, url, video_id, transcript, response, fetchCalls, genCalls>>

\* QLine without the append of the open record to mcqs
QLineNoEmit(raw) ==
    /\ NextLine(raw)
    /\ IsQLine(Strip(raw))
    /\ current_mcq' = <<[question |-> Strip(raw), options |-> <<>>, correct_answer |-> <<>>,
                         explanation |-> <<>>]>>
    /\ qSeen' = Append(qSeen, Strip(raw))
    /\ UNCHANGED <<pc, result, mcqs>>

\* lines 157-160
QLine(raw) ==
    /\ NextLine(raw)
    /\ IsQLine(Strip(raw))
    /\ mcqs' = Emitted
    /\ current_mcq' = <<NewMcq(Strip(raw))>>
    /\ qSeen' = Append(qSeen, Strip(raw))
    /\ UNCHANGED <<pc, result>>

\* lines 161-162, a record is open
OptionLine(raw) ==
    /\ NextLine(raw)
    /\ IsOptionLine(Strip(raw))
    /\ current_mcq # <<>>
    /\ current_mcq' = <<[current_mcq[1] EXCEPT !.options = Append(@, Strip(raw))]>>
    /\ UNCHANGED <<pc, result, mcqs, qSeen>>

\* lines 163-164, a record is open
CorrectAnswerLine(raw) ==
    /\ NextLine(raw)
    /\ IsCorrectAnswerLine(Strip(raw))
    /\ current_mcq # <<>>
    /\ current_mcq' = <<[current_mcq[1] EXCEPT !.correct_answer = FieldText(Strip(raw))]>>
    /\ UNCHANGED <<pc, result, mcqs, qSeen>>

\* lines 165-166, a record is open
ExplanationLine(raw) ==
    /\ NextLine(raw)
    /\ IsExplanationLine(Strip(raw))
    /\ current_mcq # <<>>
    /\ current_mcq' = <<[current_mcq[1] EXCEPT !.explanation = FieldText(Strip(raw))]>>
    /\ UNCHANGED <<pc, result, mcqs, qSeen>>

\* lines 162, 164, 166 with current_mcq None: subscripting None raises TypeError,
\* which line 177 turns into the 500 "Unexpected error" response
FieldLineNoRecord(raw) ==
    /\ pc = "parse"
    /\ response # "emptytext"
    /\ LET l == Strip(raw)
       IN IsOptionLine(l) \/ IsCorrectAnswerLine(l) \/ IsExplanationLine(l)
    /\ current_mcq = <<>>
    /\ line' = Strip(raw)
    /\ nlines' = nlines + 1
    /\ result' = UnexpectedError
    /\ pc' = "done"
    /\ UNCHANGED <<task, url, video_id, transcript, response, fetchCalls, genCalls,
                   mcqs, current_mcq, qSeen>>

\* OtherLine with the line taken as a continuation of the explanation
OtherLineAppended(raw) ==
    /\ NextLine(raw)
    /\ IsOtherLine(Strip(raw))
    /\ current_mcq' =
         IF current_mcq = <<>> THEN current_mcq
         ELSE <<[current_mcq[1] EXCEPT !.explanation = @ \o Strip(raw)]>>
    /\ UNCHANGED <<pc, result, mcqs, qSeen>>

\* no branch of lines 157-166 is taken
OtherLine(raw) ==
    /\ NextLine(raw)
    /\ IsOtherLine(Strip(raw))
    /\ UNCHANGED <<pc, result, mcqs, current_mcq, qSeen>>

\* lines 168-174: the list of the split is exhausted (it never is empty)
EndOfInput ==
    /\ pc = "parse"
    /\ nlines >= 1
    /\ mcqs' = Emitted
    /\ result' = IF Len(Emitted) < MinQuestions THEN NotEnoughMCQs ELSE McqResponse(Emitted)
    /\ pc' = "done"
    /\ UNCHANGED <<task, url, video_id, transcript, response, line, nlines, current_mcq,
                   fetchCalls, genCalls, qSeen>>

Next ==
    \/ ExtractVideoIdFails
    \/ ExtractVideoId
    \/ FetchTranscript
    \/ GenerateSummary
    \/ GenerateMcqs
    \/ \E raw \in Lines : nlines < MaxLines /\ QLine(raw)
    \/ \E raw \in Lines : nlines < MaxLines /\ OptionLine(raw)
    \/ \E raw \in Lines : nlines < MaxLines /\ CorrectAnswerLine(raw)
    \/ \E raw \in Lines : nlines < MaxLines /\ ExplanationLine(raw)
    \/ \E raw \in Lines : nlines < MaxLines /\ FieldLineNoRecord(raw)
    \/ \E raw \in Lines : nlines < MaxLines /\ OtherLine(raw)
    \/ EndOfInput

Spec == Init /\ [][Next]_vars

----------------------------------------------------------------------------
(* extract_video_id alone, over URLs built from up to MaxSegs segments *)

Segments ==
    { <<"/">>, <<"v", "=">>, <<"?">>,
      <<"a", "b", "c", "d", "e">>,
      <<"F", "-", "_", "9", "x", "Z">> }

RECURSIVE Concats(_, _)
Concats(S, n) ==
    IF n = 0 THEN {<<>>}
    ELSE LET prev == Concats(S, n - 1)
         IN prev \cup {p \o x : p \in prev, x \in S}

Urls == Concats(Segments, MaxSegs)

InitUrl ==
    /\ task = "none"
    /\ url \in Urls
    /\ pc = "start"
    /\ video_id = <<>>
    /\ transcript = <<>>
    /\ response = "none"
    /\ line = <<>>
    /\ nlines = 0
    /\ mcqs = <<>>
    /\ current_mcq = <<>>
    /\ result = NoResult
    /\ fetchCalls = 0
    /\ genCalls = 0
    /\ qSeen = <<>>

NextUrl == ExtractVideoIdFails \/ ExtractVideoId

SpecUrl == InitUrl /\ [][NextUrl]_vars

----------------------------------------------------------------------------
(* The parser on text that follows the exemplar of lines 137-143: blocks of a Q   *)
(* line, four option lines, a Correct Answer line and an Explanation line.        *)

\* what follows the marker on a Correct Answer or Explanation line
Contents == { <<"B">>, <<"B", ":", "x">>, <<":", "B">> }

Digit(n) == <<"0", "1", "2", "3", "4", "5", "6", "7", "8", "9">>[n + 1]

\* block b of the exemplar: for each of its lines, the texts the line may be
TemplateBlock(b) ==
    << { <<"Q", Digit(b), ":", " ", "w", "h", "y", "?">> },
       { <<"A", ")", " ", "x">> },
       { <<" ", "B", ")", " ", "x">> },
       { <<"C", ")", " ", "y">> },
       { <<"D", ")", " ", "x", " ">> },
       { CorrectAnswerMarker \o <<" ">> \o c : c \in Contents },
       { ExplanationMarker \o <<" ">> \o c : c \in Contents } >>

BlockLen == Len(TemplateBlock(1))
TemplateBlocks == MinQuestions

\* the lines the text may hold after the nlines already consumed
TemplateNext ==
    IF nlines < TemplateBlocks * BlockLen
    THEN TemplateBlock((nlines \div BlockLen) + 1)[(nlines % BlockLen) + 1]
    ELSE {}

\* the state of generate_mcqs when generate_content has returned a text
InitTemplate ==
    /\ task = "quiz"
    /\ url \in {u \in ReqUrls : HasMatch(u)}
    /\ pc = "parse"
    /\ video_id = extract_video_id(url)
    /\ transcript = <<"a">>
    /\ response = "text"
    /\ line = <<>>
    /\ nlines = 0
    /\ mcqs = <<>>
    /\ current_mcq = <<>>
    /\ result = NoResult
    /\ fetchCalls = 1
    /\ genCalls = 1
    /\ qSeen = <<>>

NextTemplate ==
    \/ \E raw \in TemplateNext : QLine(raw)
    \/ \E raw \in TemplateNext : OptionLine(raw)
    \/ \E raw \in TemplateNext : CorrectAnswerLine(raw)
    \/ \E raw \in TemplateNext : ExplanationLine(raw)
    \/ nlines = TemplateBlocks * BlockLen /\ EndOfInput

SpecTemplate == InitTemplate /\ [][NextTemplate]_vars

----------------------------------------------------------------------------
(* Properties *)

\* the request has ended
Done == pc = "done"
Failed == result.status # 200
NoPayload == result.summary = <<>> /\ result.mcqs = <<>>

\* the parser has consumed at least one line of a generation response
ParseRan == task = "quiz" /\ nlines >= 1

\* the whole text after the first colon of a line, trimmed
AfterFirstColon(l) ==
    LET i == CHOOSE k \in 1..Len(l) : l[k] = ":" /\ \A j \in 1..(k - 1) : l[j] # ":"
    IN Strip(SubSeq(l, i + 1, Len(l)))

Questions(recs) == [i \in 1..Len(recs) |-> recs[i].question]

\* C1: when the parse emits fewer than 5 records the quiz request fails with
\* "Not enough MCQs generated." and returns no records; with 5 or more it succeeds
\* and returns all emitted records in emission order.
C1_CountDecidesOutcome ==
    (Done /\ ParseRan) =>
        IF Len(qSeen) < MinQuestions
        THEN result = NotEnoughMCQs
        ELSE result = McqResponse(mcqs) /\ Questions(mcqs) = qSeen

\* C1 holds of every parse that the TypeError of C10 does not abort.
C1_UnlessAborted ==
    (Done /\ ParseRan /\ result # UnexpectedError) =>
        IF Len(qSeen) < MinQuestions
        THEN result = NotEnoughMCQs
        ELSE result = McqResponse(mcqs) /\ Questions(mcqs) = qSeen

\* C2: text of exactly 5 well-formed blocks of the exemplar gives exactly 5 records,
\* in block order, each with exactly 4 options and a non-empty correct_answer and
\* explanation.
C2_WellFormedBlocks ==
    Done =>
        /\ result.status = 200
        /\ Len(result.mcqs) = TemplateBlocks
        /\ Questions(result.mcqs) = qSeen
        /\ \A i \in 1..Len(result.mcqs) :
             /\ Len(result.mcqs[i].options) = Cardinality(OptionMarkers)
             /\ result.mcqs[i].correct_answer # <<>>
             /\ result.mcqs[i].explanation # <<>>

\* C2 but for the emptiness of the fields that FieldText cuts (C8): 5 records, in
\* block order, 4 options each.
C2_UnlessCutAtColon ==
    Done =>
        /\ result.status = 200
        /\ Len(result.mcqs) = TemplateBlocks
        /\ Questions(result.mcqs) = qSeen
        /\ \A i \in 1..Len(result.mcqs) :
             Len(result.mcqs[i].options) = Cardinality(OptionMarkers)

\* C3: a line that matches no marker is discarded: the step that consumes it leaves
\* the output sequence, the open record (or its absence) and the request's outcome
\* unchanged, and the parse goes on.
C3_OtherLineDiscarded ==
    [][(pc = "parse" /\ nlines' = nlines + 1 /\ IsOtherLine(line'))
         => /\ mcqs' = mcqs
            /\ current_mcq' = current_mcq
            /\ result' = result
            /\ pc' = "parse"]_vars

C3_Witness ==
    /\ pc = "parse"
    /\ nlines >= 2
    /\ IsOtherLine(line)
    /\ line # <<>>
    /\ mcqs # <<>>
    /\ current_mcq # <<>>
    /\ current_mcq[1].options # <<>>
    /\ current_mcq[1].correct_answer # <<>>

\* C4: in summarize and quiz, a generation response with empty text or without an
\* extractable text ends the request as a failure, never as a success.
C4_EmptyResponseFails ==
    (Done /\ response \in {"emptytext", "textraises", "dictbare", "other"}) => Failed

\* a run of exactly 11 id characters follows the `v=` or `/` at position i
ExactIdAt(u, i) ==
    LET n == SepLen(u, i) IN
    /\ MatchAt(u, i)
    /\ i + n + IdLen <= Len(u) => u[i + n + IdLen] \notin IdChars

\* the ids of exactly 11 characters a URL holds
ExactIds(u) ==
    {SubSeq(u, i + SepLen(u, i), i + SepLen(u, i) + IdLen - 1) :
        i \in {k \in 1..Len(u) : ExactIdAt(u, k)}}

\* C5: extract_video_id returns the id of exactly 11 id characters that follows
\* `v=` or `/` when the URL holds one, and fails with the invalid-URL error for
\* every other string.
C5_ExactlyElevenOrInvalid ==
    (task = "none" /\ pc # "start") =>
        IF ExactIds(url) # {}
        THEN pc = "fetch" /\ video_id \in ExactIds(url)
        ELSE result = InvalidURL

\* the failures of the four stages: no id, no transcript, no generated text
\* (the call raised, or the response holds no text), fewer than 5 records
IdStageFailed == ~HasMatch(url)
FetchStageFailed == fetchCalls >= 1 /\ transcript = <<>>
GenerationStageFailed ==
    response \in {"raises", "emptytext", "textraises", "dictbare", "other"}
ParseStageFailed == ParseRan /\ Len(qSeen) < MinQuestions

\* The order of the stages of C6: at most one fetch and one generation call, the
\* fetch only after a valid URL, the call only after a non-empty transcript.
C6_Sequencing ==
    /\ fetchCalls <= 1
    /\ genCalls <= 1
    /\ fetchCalls >= 1 => HasMatch(url)
    /\ genCalls >= 1 => HasMatch(url) /\ fetchCalls = 1 /\ transcript # <<>>
    /\ (Done /\ ~Failed) => genCalls = 1

\* C6: the stages run once each, in order, and fail fast: at most one transcript
\* fetch, at most one generation call and only after a valid URL and a non-empty
\* transcript, and a failure of any stage ends the request with an error response
\* that carries no summary and no MCQs.
C6_FailFast ==
    /\ C6_Sequencing
    /\ (Done /\ (IdStageFailed \/ FetchStageFailed \/ GenerationStageFailed
                  \/ ParseStageFailed))
         => Failed /\ NoPayload

\* C6 for the generation failures the code detects (the call or .text raising).
C6_FailFastDetected ==
    /\ C6_Sequencing
    /\ (Done /\ (IdStageFailed \/ FetchStageFailed \/ response \in {"raises", "textraises"}
                  \/ ParseStageFailed))
         => Failed /\ NoPayload

\* the forms a label of a record's option lines may take as an answer: the
\* letter, the letter with its parenthesis, the whole option line
LabelForms(rec) ==
    UNION { { <<o[1]>>, SubSeq(o, 1, 2), o } : o \in {rec.options[j] : j \in 1..Len(rec.options)} }

\* C7: every emitted record has a non-empty question and a correct_answer drawn
\* from the labels of the option lines collected in that record.
C7_AnswerAmongLabels ==
    \A i \in 1..Len(mcqs) :
        /\ mcqs[i].question # <<>>
        /\ mcqs[i].correct_answer \in LabelForms(mcqs[i])

\* C7, amended: every emitted record has a non-empty question, the Q-prefixed line
\* that opened it; its correct_answer is not checked against the option labels.
C7_QuestionNonEmpty ==
    /\ \A i \in 1..Len(mcqs) : mcqs[i].question # <<>> /\ IsQLine(mcqs[i].question)
    /\ \A i \in 1..Len(result.mcqs) :
         result.mcqs[i].question # <<>> /\ IsQLine(result.mcqs[i].question)

C7_Witness ==
    /\ Done
    /\ result.status = 200
    /\ \E i \in 1..Len(result.mcqs) :
         /\ result.mcqs[i].correct_answer # <<>>
         /\ result.mcqs[i].correct_answer \notin LabelForms(result.mcqs[i])

\* C8: with a record open, a Correct Answer line sets correct_answer, and an
\* Explanation line sets explanation, to the whole text after the line's first
\* colon, trimmed, further colons included.
C8_WholeTextAfterFirstColon ==
    (pc = "parse" /\ nlines >= 1 /\ current_mcq # <<>>) =>
        /\ IsCorrectAnswerLine(line) => current_mcq[1].correct_answer = AfterFirstColon(line)
        /\ IsExplanationLine(line) => current_mcq[1].explanation = AfterFirstColon(line)

C10_ParseTotal ==
    /\ (ParseRan /\ current_mcq = <<>> /\ ~IsQLine(line) /\ ~IsOtherLine(line))
         => result \in {NoResult, NotEnoughMCQs}
    /\ (Done /\ ParseRan /\ Failed) => result = NotEnoughMCQs

====
